---- MODULE Spec2Model ----
(***************************************************************************)
(* Salus iT600 integration (homeassistant/components/it600).               *)
(*                                                                         *)
(* Two state machines over one set of variables:                           *)
(*   Spec       platform setup (climate.py async_setup_platform) followed  *)
(*              by the life of one IntesisAC entity: update before add,    *)
(*              async_added_to_hass, update callbacks, scheduled           *)
(*              refreshes, reconnect timers, service calls, removal.       *)
(*   SpecSetup  the three setup paths: config flow (config_flow.py),       *)
(*              config entry setup/unload (__init__.py), platform setup.   *)
(*                                                                         *)
(* Python values are modelled by the string of their repr: None is "None", *)
(* True is "True", False is "False", a temperature such as 21.5 is "21.5". *)
(* Temperatures are never computed with, only stored, passed on and tested *)
(* for truthiness, so the string keeps everything the code observes.       *)
(* Every coroutine is cut into one action per stretch of code between two  *)
(* awaits: the event loop runs such a stretch without interruption.        *)
(***************************************************************************)
EXTENDS Naturals, Integers, Sequences, FiniteSets, TLC

\* ------------------------------------------------------------------ bounds
\* how many times the vendor connection may drop
MaxDrops == 1
\* how many times the vendor's device dictionary may change
MaxGen == 2
\* how many scheduled refresh tasks may be outstanding at once
MaxPending == 1

\* ------------------------------------------------------- program constants
\* randrange(10) returns 0..RandrangeStop-1
RandrangeStop == 10
\* reconnect_minutes * 60
SecondsPerMinute == 60

HVAC_MODE_HEAT == "heat"
HVAC_MODE_OFF == "off"
None == "None"
PyTrue == "True"
PyFalse == "False"

\* Python truth value testing of the values that occur: None, False, 0 and
\* 0.0 are false, every other value is true.
Truthy(x) == x \notin {"None", "False", "0", "0.0"}

\* bool as the repr string
PyBool(b) == IF b THEN PyTrue ELSE PyFalse

\* a or b
PyOr(a, b) == IF Truthy(a) THEN a ELSE b

\* dict.get(key) on MAP_IH_TO_HVAC_MODE
MAP_IH_TO_HVAC_MODE(mode) ==
  CASE mode = "heat" -> HVAC_MODE_HEAT
    [] mode = "off" -> HVAC_MODE_OFF
    [] OTHER -> None

\* ------------------------------------------------------------ input sets
\* temperatures a service call may carry (kwargs.get gives None when absent)
Temps == {"0", "21.5"}
\* device ids an update callback may carry (None: all devices)
OwnDeviceId == "dev1"
CallbackIds == {None, OwnDeviceId, "dev2"}
\* what the controller's device dictionary may hold for this device
DeviceDicts ==
  { [temperature |-> "19.5", min_setpoint |-> "5.0", max_setpoint |-> "35.0",
     setpoint |-> "20.0", rssi |-> "-60", power |-> PyTrue, mode |-> "heat"],
    [temperature |-> "21.0", min_setpoint |-> "5.0", max_setpoint |-> "35.0",
     setpoint |-> "22.0", rssi |-> "-71", power |-> PyFalse, mode |-> "heat"],
    [temperature |-> "18.0", min_setpoint |-> "7.0", max_setpoint |-> "30.0",
     setpoint |-> "16.0", rssi |-> None, power |-> PyTrue, mode |-> "auto"] }
\* results of controller.connect()
ConnectOutcomes == {"IHConnectionError", "IHAuthenticationError", "ok"}

\* ------------------------------------------------- config flow input sets
\* strings that the flow takes apart are sequences of characters
Str_Gateway_ == <<"G", "a", "t", "e", "w", "a", "y", "_">>
\* advertised zeroconf service names ("" stands for a missing name too)
ZeroconfNames ==
  { <<>>,
    Str_Gateway_,
    Str_Gateway_ \o <<"1", "2">>,
    Str_Gateway_ \o <<"a", "1">>,
    <<"B", "r", "i", "d", "g", "e", "_", "1", "2">> }
\* what gateway.connect() returns: the gateway's MAC address
Macs == { <<"1", "2">>, <<"a", "1">> }
\* unique ids of the entries configured before the flow starts
ConfiguredIds == { <<"1", "2">> }
Hosts == {"192.168.1.2"}
Ports == {"80"}
Euids == {"001E5E0000000001"}
\* results of IT600Gateway.connect()
GatewayErrors == {"IT600ConnectionError", "IT600AuthenticationError",
                  "IT600CommandError"}
EntryIds == {"e1", "e2"}
\* no unique id set; a unique id is a sequence of characters
NoId == << None >>
EmptyContext == [host |-> None, port |-> None, euid |-> None,
                 serial_number |-> NoId]
NoData == [host |-> None, port |-> None, euid |-> None, serial_number |-> NoId]
NoResult == [type |-> "none", step_id |-> "none", reason |-> "none",
             title |-> NoId, data |-> NoData]

\* the fields async_update copies from the controller
Fields == {"connected", "current_temp", "min_temp", "max_temp", "target_temp",
           "rssi", "power", "hvac_mode"}
\* ghost tag of a field that no async_update wrote (constructor, local write)
NotRead == {}

VARIABLES
  \* platform / entity life cycle
  pc,               \* "setup","aborted","no_devices","created","adding",
                    \* "connecting","added","add_failed","removed"
  platform_result,  \* the last async_setup_platform: what poll_status() did
                    \* and what the platform setup did about it
  attach_log,       \* controller calls of async_added_to_hass, in order
  attach_result,    \* async_added_to_hass: what connect() did, and the
                    \* exception that left async_added_to_hass ("none": none)
  \* IntesisAC fields
  _connected, _current_temp, _min_temp, _max_temp, _target_temp, _rssi,
  _power, _hvac_mode,
  src,              \* ghost: per field, {generation of the controller state
                    \* the last async_update read it from}, or NotRead
  \* the controller (vendor client)
  is_connected, device, gen, drops, update_callbacks, stopped,
  \* the host's event loop
  timers,           \* delays (s) of the pending async_call_later timers
  pending_refresh,  \* outstanding async_schedule_update_ha_state(True) tasks
  call,             \* the service call in progress or last finished
  log,              \* what that call did, in order
  connect_calls,    \* how many times controller.connect() has been called
  reconnect_issued, \* ghost: a timer has called connect() since the connection
                    \* was last lost (or since the start)
  \* config flow and config entries (SpecSetup)
  flow,             \* the IT600FlowHandler: unique id, context, last result
  entry_setup,      \* per config entry: the last setup/unload and its result
  hass_data         \* hass.data[DOMAIN]: the entry ids holding a gateway client

mirror_vars == <<_connected, _current_temp, _min_temp, _max_temp, _target_temp,
                 _rssi, _power, _hvac_mode, src>>
controller_vars == <<is_connected, device, gen, drops, update_callbacks, stopped>>
life_vars == <<pc, platform_result, attach_log, attach_result>>
loop_vars == <<timers, pending_refresh, call, log>>
calls_vars == <<connect_calls, reconnect_issued>>
config_vars == <<flow, entry_setup, hass_data>>
vars == <<life_vars, mirror_vars, controller_vars, loop_vars, calls_vars,
          config_vars>>

\* ------------------------------------------------------------------- Init
\* IntesisAC.__init__
InitEntity ==
  /\ _connected = None
  /\ _current_temp = None
  /\ _min_temp = None
  /\ _max_temp = None
  /\ _target_temp = None
  /\ _rssi = None
  /\ _power = PyFalse
  /\ _hvac_mode = None
  /\ src = [f \in Fields |-> NotRead]

\* IntesisHome(euid, hass.loop): not connected, no callback, some dictionary
InitController ==
  /\ is_connected = PyFalse
  /\ device \in DeviceDicts
  /\ gen = 1
  /\ drops = 0
  /\ update_callbacks = FALSE
  /\ stopped = FALSE

InitLoop ==
  /\ timers = <<>>
  /\ pending_refresh = 0
  /\ call = [op |-> "none", temperature |-> None, hvac_mode |-> None,
             status |-> "idle"]
  /\ log = <<>>
  /\ connect_calls = 0
  /\ reconnect_issued = FALSE

InitLife ==
  /\ pc = "setup"
  /\ platform_result = [poll_status |-> "none", effect |-> "none"]
  /\ attach_log = <<>>
  /\ attach_result = [connect |-> "none", raised |-> "none"]

\* a flow handler that has run no step; no config entry set up
InitConfig ==
  /\ flow = [unique_id |-> NoId, context |-> EmptyContext,
             connect |-> "none", result |-> NoResult]
  /\ entry_setup = [e \in EntryIds |-> [connect |-> "none", effect |-> "none"]]
  /\ hass_data = {}

Init == InitLife /\ InitEntity /\ InitController /\ InitLoop /\ InitConfig

\* --------------------------------------------------- entity properties
\* available without the "or self._connected is None"
available_no_none == _connected

\* IntesisAC.available
available == PyOr(_connected, PyBool(_connected = None))

\* hvac_mode without the test of self._power
hvac_mode_ignoring_power == _hvac_mode

\* IntesisAC.hvac_mode
hvac_mode == IF Truthy(_power) THEN _hvac_mode ELSE HVAC_MODE_OFF

\* IntesisAC.target_temperature
target_temperature == _target_temp

\* ------------------------------------------------------- platform setup
\* async_setup_platform: poll_status() raised IHAuthenticationError
SetupPlatformAuthError ==
  /\ pc = "setup"
  /\ pc' = "aborted"
  /\ platform_result' = [poll_status |-> "IHAuthenticationError",
                         effect |-> "invalid_euid_logged_return"]
  /\ UNCHANGED <<calls_vars, attach_log, attach_result, mirror_vars, controller_vars,
                 loop_vars, config_vars>>

\* async_setup_platform: poll_status() raised IHConnectionError; the host
\* sets the platform up again later
SetupPlatformConnectionError ==
  /\ pc = "setup"
  /\ pc' = "setup"
  /\ platform_result' = [poll_status |-> "IHConnectionError",
                         effect |-> "PlatformNotReady"]
  /\ UNCHANGED <<calls_vars, attach_log, attach_result, mirror_vars, controller_vars,
                 loop_vars, config_vars>>

\* async_setup_platform: the device list holds the device; the entity is made
SetupPlatformDevices ==
  /\ pc = "setup"
  /\ pc' = "created"
  /\ platform_result' = [poll_status |-> "ok", effect |-> "entities_added"]
  /\ UNCHANGED <<calls_vars, attach_log, attach_result, mirror_vars, controller_vars,
                 loop_vars, config_vars>>

\* async_setup_platform: the device list is empty; controller.stop()
SetupPlatformNoDevices ==
  /\ pc = "setup"
  /\ pc' = "no_devices"
  /\ platform_result' = [poll_status |-> "ok",
                         effect |-> "no_devices_logged_stop"]
  /\ stopped' = TRUE
  /\ UNCHANGED <<calls_vars, attach_log, attach_result, mirror_vars, is_connected, device,
                 gen, drops, update_callbacks, loop_vars, config_vars>>

\* ----------------------------------------------------------- async_update
\* async_update that copies the temperatures every time but rssi, power and
\* mode only on the first update of the entity
async_update_partial ==
  /\ _connected' = is_connected
  /\ _current_temp' = device.temperature
  /\ _min_temp' = device.min_setpoint
  /\ _max_temp' = device.max_setpoint
  /\ _target_temp' = device.setpoint
  /\ _rssi' = IF src["rssi"] = NotRead THEN device.rssi ELSE _rssi
  /\ _power' = IF src["power"] = NotRead THEN device.power ELSE _power
  /\ _hvac_mode' = IF src["hvac_mode"] = NotRead
                   THEN MAP_IH_TO_HVAC_MODE(device.mode) ELSE _hvac_mode
  /\ src' = [f \in Fields |->
              IF f \in {"rssi", "power", "hvac_mode"} /\ src[f] # NotRead
              THEN src[f] ELSE {gen}]

\* IntesisAC.async_update: no await between its assignments
async_update ==
  /\ _connected' = is_connected
  /\ _current_temp' = device.temperature
  /\ _min_temp' = device.min_setpoint
  /\ _max_temp' = device.max_setpoint
  /\ _target_temp' = device.setpoint
  /\ _rssi' = device.rssi
  /\ _power' = device.power
  /\ _hvac_mode' = MAP_IH_TO_HVAC_MODE(device.mode)
  /\ src' = [f \in Fields |-> {gen}]

\* async_add_entities(..., True): the entity is updated before it is added
UpdateBeforeAdd ==
  /\ pc = "created"
  /\ async_update
  /\ pc' = "adding"
  /\ UNCHANGED <<calls_vars, platform_result, attach_log, attach_result, controller_vars,
                 loop_vars, config_vars>>

\* the task of async_schedule_update_ha_state(True): async_update, then the
\* state is written
RefreshTask ==
  /\ pending_refresh > 0
  /\ pc \in {"connecting", "added", "add_failed"}
  /\ async_update
  /\ pending_refresh' = pending_refresh - 1
  /\ UNCHANGED <<calls_vars, life_vars, controller_vars, timers, call, log, config_vars>>

\* ---------------------------------------------------- async_added_to_hass
\* await self._controller.add_update_callback(self.async_update_callback)
AddedToHassRegister ==
  /\ pc = "adding"
  /\ update_callbacks' = TRUE
  /\ attach_log' = Append(attach_log, "add_update_callback")
  /\ pc' = "connecting"
  /\ UNCHANGED <<calls_vars, platform_result, attach_result, mirror_vars, is_connected,
                 device, gen, drops, stopped, loop_vars, config_vars>>

\* await self._controller.connect() without the try/except
AddedToHassConnectNoCatch(outcome) ==
  /\ pc = "connecting"
  /\ connect_calls' = connect_calls + 1
  /\ UNCHANGED reconnect_issued
  /\ attach_log' = Append(attach_log, "connect")
  /\ is_connected' = IF outcome = "ok" THEN PyTrue ELSE is_connected
  /\ attach_result' = [connect |-> outcome,
                       raised |-> IF outcome = "ok" THEN "none" ELSE outcome]
  /\ pc' = IF outcome = "ok" THEN "added" ELSE "add_failed"
  /\ UNCHANGED <<platform_result, mirror_vars, device, gen, drops,
                 update_callbacks, stopped, loop_vars, config_vars>>

\* await self._controller.connect() inside try/except IHConnectionError:
\* that exception is logged, any other leaves async_added_to_hass
AddedToHassConnect(outcome) ==
  /\ pc = "connecting"
  /\ connect_calls' = connect_calls + 1
  /\ UNCHANGED reconnect_issued
  /\ attach_log' = Append(attach_log, "connect")
  /\ is_connected' = IF outcome = "ok" THEN PyTrue ELSE is_connected
  /\ attach_result' = [connect |-> outcome,
                       raised |-> IF outcome \in {"ok", "IHConnectionError"}
                                  THEN "none" ELSE outcome]
  /\ pc' = IF outcome \in {"ok", "IHConnectionError"} THEN "added"
           ELSE "add_failed"
  /\ UNCHANGED <<platform_result, mirror_vars, device, gen, drops,
                 update_callbacks, stopped, loop_vars, config_vars>>

\* ------------------------------------------------- async_update_callback
\* the delay with the minutes passed as seconds
ReconnectDelayMinutes(r) == 1 + r

\* reconnect_minutes * 60 for a value r of randrange(10)
ReconnectDelay(r) == (1 + r) * SecondsPerMinute

\* "if not self._controller.is_connected and self._connected"
ConnectionDropped == ~Truthy(is_connected) /\ Truthy(_connected)

\* self._connected after the first if
ConnectedAfterDrop == IF ConnectionDropped THEN PyFalse ELSE _connected

\* "if self._controller.is_connected and not self._connected", which reads
\* the field as the first if left it
ConnectionRestored == Truthy(is_connected) /\ ~Truthy(ConnectedAfterDrop)

\* the test without "not device_id"
RefreshRequestedOwnOnly(device_id) == OwnDeviceId = device_id

\* "if not device_id or self._device_id == device_id"
RefreshRequested(device_id) == ~Truthy(device_id) \/ OwnDeviceId = device_id

\* IntesisAC.async_update_callback(device_id), invoked by the controller with
\* randrange(10) returning r: no await between its statements
UpdateCallback(device_id, r) ==
  /\ update_callbacks
  /\ ~stopped
  /\ RefreshRequested(device_id) => pending_refresh < MaxPending
  /\ ConnectionDropped \/ r = 0      \* randrange is called in the first if only
  /\ timers' = IF ConnectionDropped THEN Append(timers, ReconnectDelay(r))
               ELSE timers
  /\ _connected' = IF ConnectionRestored THEN PyTrue ELSE ConnectedAfterDrop
  /\ src' = IF ConnectionDropped \/ ConnectionRestored
            THEN [src EXCEPT !["connected"] = NotRead] ELSE src
  /\ pending_refresh' = IF RefreshRequested(device_id)
                        THEN pending_refresh + 1 ELSE pending_refresh
  /\ UNCHANGED <<calls_vars, life_vars, _current_temp, _min_temp, _max_temp, _target_temp,
                 _rssi, _power, _hvac_mode, controller_vars, call, log,
                 config_vars>>

\* a timer that is dropped without a connect() when the connection is back
TimerFireUnlessRestored(i, outcome) ==
  /\ i \in 1..Len(timers)
  /\ timers' = [j \in 1..(Len(timers) - 1) |->
                  IF j < i THEN timers[j] ELSE timers[j + 1]]
  /\ connect_calls' = IF Truthy(is_connected) THEN connect_calls
                      ELSE connect_calls + 1
  /\ reconnect_issued' = TRUE
  /\ is_connected' = IF outcome = "ok" THEN PyTrue ELSE is_connected
  /\ UNCHANGED <<life_vars, mirror_vars, device, gen, drops, update_callbacks,
                 stopped, pending_refresh, call, log, config_vars>>

\* a timer of async_call_later fires and runs the coroutine
\* self._controller.connect(); nothing cancels a timer
TimerFire(i, outcome) ==
  /\ i \in 1..Len(timers)
  /\ timers' = [j \in 1..(Len(timers) - 1) |->
                  IF j < i THEN timers[j] ELSE timers[j + 1]]
  /\ connect_calls' = connect_calls + 1
  /\ reconnect_issued' = TRUE
  /\ is_connected' = IF outcome = "ok" THEN PyTrue ELSE is_connected
  /\ UNCHANGED <<life_vars, mirror_vars, device, gen, drops, update_callbacks,
                 stopped, pending_refresh, call, log, config_vars>>

\* ------------------------------------------------------- the vendor side
\* the connection to the vendor API is lost
VendorDrop ==
  /\ Truthy(is_connected)
  /\ drops < MaxDrops
  /\ is_connected' = PyFalse
  /\ reconnect_issued' = FALSE
  /\ UNCHANGED connect_calls
  /\ drops' = drops + 1
  /\ UNCHANGED <<life_vars, mirror_vars, device, gen, update_callbacks,
                 stopped, loop_vars, config_vars>>

\* the vendor pushes new device values into the controller's dictionary
\* the controller is shared by the entities of every device of the account:
\* the timer of another entity calls connect() on it and the connection is back
SiblingReconnect ==
  /\ pc = "added"
  /\ drops > 0
  /\ ~Truthy(is_connected)
  /\ is_connected' = PyTrue
  /\ UNCHANGED <<calls_vars, life_vars, mirror_vars, device, gen, drops,
                 update_callbacks, stopped, loop_vars, config_vars>>

VendorChange(d) ==
  /\ gen < MaxGen
  /\ pc \notin {"setup", "aborted", "no_devices"}
  /\ d # device
  /\ device' = d
  /\ gen' = gen + 1
  /\ UNCHANGED <<calls_vars, life_vars, mirror_vars, is_connected, drops, update_callbacks,
                 stopped, loop_vars, config_vars>>

\* --------------------------------------------------------- service calls
\* the host dispatches one call at a time to an added entity
CanCall == pc = "added" /\ call.status # "awaiting"

\* async_set_hvac_mode(hvac_mode): its first statement reads
\* self._device_type, which neither __init__ nor any other method assigns,
\* so the call ends in AttributeError before any command or assignment
async_set_hvac_mode(mode) ==
  /\ CanCall
  /\ call' = [op |-> "set_hvac_mode", temperature |-> None,
              hvac_mode |-> mode, status |-> "AttributeError"]
  /\ log' = <<>>
  /\ UNCHANGED <<calls_vars, life_vars, mirror_vars, controller_vars, timers,
                 pending_refresh, config_vars>>

\* async_set_temperature(temperature=, hvac_mode=) with a true hvac_mode:
\* async_set_hvac_mode raises and the exception leaves the call
SetTemperatureWithMode(temperature, mode) ==
  /\ CanCall
  /\ Truthy(mode)
  /\ call' = [op |-> "set_temperature", temperature |-> temperature,
              hvac_mode |-> mode, status |-> "AttributeError"]
  /\ log' = <<>>
  /\ UNCHANGED <<calls_vars, life_vars, mirror_vars, controller_vars, timers,
                 pending_refresh, config_vars>>

\* async_set_temperature up to "await self._controller.set_temperature(...)":
\* the command is sent only "if temperature"
SetTemperatureSend(temperature) ==
  /\ CanCall
  /\ Truthy(temperature)
  /\ call' = [op |-> "set_temperature", temperature |-> temperature,
              hvac_mode |-> None, status |-> "awaiting"]
  /\ log' = << <<"controller.set_temperature", temperature>> >>
  /\ UNCHANGED <<calls_vars, life_vars, mirror_vars, controller_vars, timers,
                 pending_refresh, config_vars>>

\* async_set_temperature with a false temperature (None, 0): no command and
\* no assignment, only async_write_ha_state()
SetTemperatureSkip(temperature) ==
  /\ CanCall
  /\ ~Truthy(temperature)
  /\ call' = [op |-> "set_temperature", temperature |-> temperature,
              hvac_mode |-> None, status |-> "returned"]
  /\ log' = << <<"async_write_ha_state", None>> >>
  /\ UNCHANGED <<calls_vars, life_vars, mirror_vars, controller_vars, timers,
                 pending_refresh, config_vars>>

\* the awaited command returned: the field is assigned, the state written
SetTemperatureReturn ==
  /\ call.status = "awaiting"
  /\ _target_temp' = call.temperature
  /\ src' = [src EXCEPT !["target_temp"] = NotRead]
  /\ call' = [call EXCEPT !.status = "returned"]
  /\ log' = log \o << <<"_target_temp", call.temperature>>,
                      <<"async_write_ha_state", None>> >>
  /\ UNCHANGED <<calls_vars, life_vars, _connected, _current_temp, _min_temp, _max_temp,
                 _rssi, _power, _hvac_mode, controller_vars, timers,
                 pending_refresh, config_vars>>

\* async_set_temperature with the assignment before the awaited command
SetTemperatureRaiseAfterAssignment ==
  /\ call.status = "awaiting"
  /\ _target_temp' = call.temperature
  /\ src' = [src EXCEPT !["target_temp"] = NotRead]
  /\ call' = [call EXCEPT !.status = "command_error"]
  /\ UNCHANGED <<calls_vars, life_vars, _connected, _current_temp, _min_temp,
                 _max_temp, _rssi, _power, _hvac_mode, controller_vars, timers,
                 pending_refresh, log, config_vars>>

\* the awaited command raised: the exception leaves async_set_temperature
\* before the assignment and before the state is written
SetTemperatureRaise ==
  /\ call.status = "awaiting"
  /\ call' = [call EXCEPT !.status = "command_error"]
  /\ UNCHANGED <<calls_vars, life_vars, mirror_vars, controller_vars, timers,
                 pending_refresh, log, config_vars>>

\* ------------------------------------------- async_will_remove_from_hass
\* await self._controller.stop(): the connection is closed; pending timers
\* are left alone
WillRemoveFromHass ==
  /\ CanCall
  /\ pc' = "removed"
  /\ stopped' = TRUE
  /\ is_connected' = PyFalse
  /\ UNCHANGED <<calls_vars, platform_result, attach_log, attach_result, mirror_vars,
                 device, gen, drops, update_callbacks, loop_vars, config_vars>>

\* -------------------------------------------------------------------- Next
Next ==
  \/ SetupPlatformAuthError
  \/ SetupPlatformConnectionError
  \/ SetupPlatformDevices
  \/ SetupPlatformNoDevices
  \/ UpdateBeforeAdd
  \/ AddedToHassRegister
  \/ \E outcome \in ConnectOutcomes : AddedToHassConnect(outcome)
  \/ \E device_id \in CallbackIds, r \in 0..(RandrangeStop - 1) :
       UpdateCallback(device_id, r)
  \/ RefreshTask
  \/ \E i \in 1..Len(timers), outcome \in ConnectOutcomes : TimerFire(i, outcome)
  \/ VendorDrop
  \/ \E d \in DeviceDicts : VendorChange(d)
  \/ \E mode \in {HVAC_MODE_HEAT, HVAC_MODE_OFF} : async_set_hvac_mode(mode)
  \/ \E temperature \in Temps \cup {None}, mode \in {HVAC_MODE_HEAT, HVAC_MODE_OFF} :
       SetTemperatureWithMode(temperature, mode)
  \/ \E temperature \in Temps : SetTemperatureSend(temperature)
  \/ \E temperature \in Temps \cup {None} : SetTemperatureSkip(temperature)
  \/ SetTemperatureReturn
  \/ SetTemperatureRaise
  \/ WillRemoveFromHass

Spec == Init /\ [][Next]_vars

\* the host's event loop runs every timer that is due
TimerFires == \E i \in 1..Len(timers), outcome \in ConnectOutcomes :
                TimerFire(i, outcome)

\* the connection life of one entity next to the entities of other devices:
\* the steps that read or write is_connected, _connected or the timers
NextTimers ==
  \/ SetupPlatformDevices
  \/ UpdateBeforeAdd
  \/ AddedToHassRegister
  \/ \E outcome \in ConnectOutcomes : AddedToHassConnect(outcome)
  \/ \E device_id \in CallbackIds, r \in 0..(RandrangeStop - 1) :
       UpdateCallback(device_id, r)
  \/ RefreshTask
  \/ TimerFires
  \/ VendorDrop
  \/ SiblingReconnect
  \/ WillRemoveFromHass

SpecTimers == Init /\ [][NextTimers]_vars /\ WF_vars(TimerFires)

\* ------------------------------------------------------------ config flow
\* str.startswith(prefix)
StartsWith(s, prefix) ==
  Len(s) >= Len(prefix) /\ SubSeq(s, 1, Len(prefix)) = prefix

\* the characters of a string
Chars(s) == {s[i] : i \in 1..Len(s)}

\* str.lstrip(chars): drops every leading character that is in chars
RECURSIVE LStrip(_, _)
LStrip(s, chars) ==
  IF s # <<>> /\ Head(s) \in Chars(chars) THEN LStrip(Tail(s), chars) ELSE s

FlowForm(step_id, reason) ==
  [type |-> "form", step_id |-> step_id, reason |-> reason, title |-> NoId,
   data |-> NoData]

FlowAbort(reason) ==
  [type |-> "abort", step_id |-> "none", reason |-> reason, title |-> NoId,
   data |-> NoData]

FlowCreateEntry(title, data) ==
  [type |-> "create_entry", step_id |-> "none", reason |-> "none",
   title |-> title, data |-> data]

\* _show_setup_form(errors): errors["base"], "none" for {}
show_setup_form(base) == FlowForm("user", base)

\* _show_confirm_dialog()
show_confirm_dialog == FlowForm("zeroconf_confirm", "none")

\* the form error / abort reason of each exception of gateway.connect()
ErrorKey(exception) ==
  CASE exception = "IT600ConnectionError" -> "connection_error"
    [] exception = "IT600AuthenticationError" -> "authentication_error"
    [] exception = "IT600CommandError" -> "command_error"

\* a flow is over once it aborted or created its entry
FlowOpen == flow.result.type \in {"none", "form"}

\* async_step_user(None)
StepUserShowForm ==
  /\ flow.result.type = "none"
  /\ flow' = [flow EXCEPT !.result = show_setup_form("none")]
  /\ UNCHANGED <<calls_vars, life_vars, mirror_vars, controller_vars, loop_vars,
                 entry_setup, hass_data>>

\* async_step_user(user_input) when _get_gateways_mac_address raises
StepUserError(exception) ==
  /\ flow.result.type = "none" \/ flow.result.step_id = "user"
  /\ FlowOpen
  /\ flow' = [flow EXCEPT !.connect = exception,
                          !.result = show_setup_form(ErrorKey(exception))]
  /\ UNCHANGED <<calls_vars, life_vars, mirror_vars, controller_vars, loop_vars,
                 entry_setup, hass_data>>

\* async_step_user(user_input) when gateway.connect() returns mac
StepUserConnected(host, port, euid, mac) ==
  /\ flow.result.type = "none" \/ flow.result.step_id = "user"
  /\ FlowOpen
  /\ flow' = [flow EXCEPT
       !.connect = "ok",
       !.unique_id = mac,
       !.result = IF mac \in ConfiguredIds THEN FlowAbort("already_configured")
                  ELSE FlowCreateEntry(mac,
                         [host |-> host, port |-> port, euid |-> euid,
                          serial_number |-> mac])]
  /\ UNCHANGED <<calls_vars, life_vars, mirror_vars, controller_vars, loop_vars,
                 entry_setup, hass_data>>

\* async_step_zeroconf(None)
StepZeroconfNoInput ==
  /\ flow.result.type = "none"
  /\ flow' = [flow EXCEPT !.result = FlowAbort("connection_error")]
  /\ UNCHANGED <<calls_vars, life_vars, mirror_vars, controller_vars, loop_vars,
                 entry_setup, hass_data>>

\* async_step_zeroconf(user_input) with the advertised name, host and port
StepZeroconf(name, host, port) ==
  /\ flow.result.type = "none"
  /\ LET mac == LStrip(name, Str_Gateway_) IN
     flow' =
       IF name = <<>> \/ ~StartsWith(name, Str_Gateway_)
       THEN [flow EXCEPT !.result = FlowAbort("not_gateway")]
       ELSE IF mac \in ConfiguredIds
       THEN [flow EXCEPT !.unique_id = mac,
                         !.result = FlowAbort("already_configured")]
       ELSE [flow EXCEPT !.unique_id = mac,
                         !.context = [flow.context EXCEPT
                                        !.host = host, !.port = port,
                                        !.serial_number = mac],
                         !.result = show_confirm_dialog]
  /\ UNCHANGED <<calls_vars, life_vars, mirror_vars, controller_vars, loop_vars,
                 entry_setup, hass_data>>

\* async_step_zeroconf_confirm(None)
StepZeroconfConfirmShow ==
  /\ flow.result.step_id = "zeroconf_confirm"
  /\ flow' = [flow EXCEPT !.result = show_confirm_dialog]
  /\ UNCHANGED <<calls_vars, life_vars, mirror_vars, controller_vars, loop_vars,
                 entry_setup, hass_data>>

\* async_step_zeroconf_confirm(user_input) when gateway.connect() raises
StepZeroconfConfirmError(exception) ==
  /\ flow.result.step_id = "zeroconf_confirm"
  /\ flow' = [flow EXCEPT !.connect = exception,
                          !.result = FlowAbort(ErrorKey(exception))]
  /\ UNCHANGED <<calls_vars, life_vars, mirror_vars, controller_vars, loop_vars,
                 entry_setup, hass_data>>

\* async_step_zeroconf_confirm(user_input) when gateway.connect() returns
\* mac: host, port, euid and serial number all come from self.context
StepZeroconfConfirmConnected(mac) ==
  /\ flow.result.step_id = "zeroconf_confirm"
  /\ flow' = [flow EXCEPT
       !.connect = "ok",
       !.unique_id = mac,
       !.result = IF mac \in ConfiguredIds THEN FlowAbort("already_configured")
                  ELSE FlowCreateEntry(<<flow.context.euid>>,
                         [host |-> flow.context.host,
                          port |-> flow.context.port,
                          euid |-> flow.context.euid,
                          serial_number |-> flow.context.serial_number])]
  /\ UNCHANGED <<calls_vars, life_vars, mirror_vars, controller_vars, loop_vars,
                 entry_setup, hass_data>>

\* ----------------------------------------------------------- config entry
\* async_setup_entry(hass, entry) when gateway.connect() returns
SetupEntryConnected(e) ==
  /\ e \notin hass_data
  /\ entry_setup[e].effect \in {"none", "ConfigEntryNotReady", "unloaded"}
  /\ hass_data' = hass_data \cup {e}
  /\ entry_setup' = [entry_setup EXCEPT ![e] =
                       [connect |-> "ok", effect |-> "loaded"]]
  /\ UNCHANGED <<calls_vars, life_vars, mirror_vars, controller_vars, loop_vars, flow>>

\* async_setup_entry that catches IT600ConnectionError only
SetupEntryErrorConnectionOnly(e, exception) ==
  /\ e \notin hass_data
  /\ entry_setup[e].effect \in {"none", "ConfigEntryNotReady", "unloaded"}
  /\ entry_setup' = [entry_setup EXCEPT ![e] =
       [connect |-> exception,
        effect |-> IF exception = "IT600ConnectionError"
                   THEN "ConfigEntryNotReady" ELSE exception]]
  /\ UNCHANGED <<calls_vars, life_vars, mirror_vars, controller_vars, loop_vars, flow,
                 hass_data>>

\* async_setup_entry(hass, entry) when gateway.connect() raises: the two
\* caught exceptions become ConfigEntryNotReady (the host retries later),
\* any other leaves the function
SetupEntryError(e, exception) ==
  /\ e \notin hass_data
  /\ entry_setup[e].effect \in {"none", "ConfigEntryNotReady", "unloaded"}
  /\ entry_setup' = [entry_setup EXCEPT ![e] =
       [connect |-> exception,
        effect |-> IF exception \in {"IT600AuthenticationError",
                                      "IT600ConnectionError"}
                   THEN "ConfigEntryNotReady" ELSE exception]]
  /\ UNCHANGED <<calls_vars, life_vars, mirror_vars, controller_vars, loop_vars, flow,
                 hass_data>>

\* async_unload_entry that pops the entry whatever the platforms returned
UnloadEntryAlwaysPops(e, unload_ok) ==
  /\ e \in hass_data
  /\ hass_data' = hass_data \ {e}
  /\ entry_setup' = [entry_setup EXCEPT ![e] =
       [connect |-> entry_setup[e].connect,
        effect |-> IF unload_ok THEN "unloaded" ELSE "unload_failed"]]
  /\ UNCHANGED <<calls_vars, life_vars, mirror_vars, controller_vars, loop_vars, flow>>

\* async_unload_entry(hass, entry): unload_ok is all(...) over PLATFORMS
UnloadEntry(e, unload_ok) ==
  /\ e \in hass_data
  /\ hass_data' = IF unload_ok THEN hass_data \ {e} ELSE hass_data
  /\ entry_setup' = [entry_setup EXCEPT ![e] =
       [connect |-> entry_setup[e].connect,
        effect |-> IF unload_ok THEN "unloaded" ELSE "unload_failed"]]
  /\ UNCHANGED <<calls_vars, life_vars, mirror_vars, controller_vars, loop_vars, flow>>

NextSetup ==
  \/ SetupPlatformAuthError
  \/ SetupPlatformConnectionError
  \/ SetupPlatformDevices
  \/ SetupPlatformNoDevices
  \/ StepUserShowForm
  \/ \E exception \in GatewayErrors : StepUserError(exception)
  \/ \E host \in Hosts, port \in Ports, euid \in Euids, mac \in Macs :
       StepUserConnected(host, port, euid, mac)
  \/ StepZeroconfNoInput
  \/ \E name \in ZeroconfNames, host \in Hosts, port \in Ports :
       StepZeroconf(name, host, port)
  \/ StepZeroconfConfirmShow
  \/ \E exception \in GatewayErrors : StepZeroconfConfirmError(exception)
  \/ \E mac \in Macs : StepZeroconfConfirmConnected(mac)
  \/ \E e \in EntryIds : SetupEntryConnected(e)
  \/ \E e \in EntryIds, exception \in GatewayErrors : SetupEntryError(e, exception)
  \/ \E e \in EntryIds, unload_ok \in BOOLEAN : UnloadEntry(e, unload_ok)

SpecSetup == Init /\ [][NextSetup]_vars

\* ================================================================= claims
WriteState == <<"async_write_ha_state", None>>

\* the service call that was in progress or idle ends in this step
CallEnds == call' # call /\ call'.status # "awaiting"

\* C1: every async_set_hvac_mode(HVAC_MODE_OFF) returns normally having sent
\* exactly one set_power_off and no set_mode, having set _power to False and
\* having written the state once, in that order and nothing else.
C1_SetModeOffOnePowerOff ==
  [][(CallEnds /\ call'.op = "set_hvac_mode" /\ call'.hvac_mode = HVAC_MODE_OFF)
       => /\ call'.status = "returned"
          /\ log' = << <<"controller.set_power_off", OwnDeviceId>>, WriteState >>
          /\ _power' = PyFalse]_vars

\* C2: every async_set_hvac_mode(HVAC_MODE_HEAT) on a device that is off
\* sends set_power_on, then set_mode(heat), then set_temperature(cached
\* target) iff a target is cached (0 included), nothing else, and leaves
\* _hvac_mode = heat.
C2_SetModeHeatSequence ==
  [][(CallEnds /\ call'.op = "set_hvac_mode" /\ call'.hvac_mode = HVAC_MODE_HEAT
        /\ ~Truthy(device.power))
       => /\ call'.status = "returned"
          /\ log' = << <<"controller.set_power_on", OwnDeviceId>>,
                       <<"controller.set_mode", "heat">> >>
                    \o (IF _target_temp # None
                        THEN << <<"controller.set_temperature", _target_temp>> >>
                        ELSE <<>>)
                    \o << WriteState >>
          /\ _hvac_mode' = HVAC_MODE_HEAT]_vars

\* C3: every async_set_temperature(temperature=v) that returns, for every
\* number v (0 included), has sent exactly one set_temperature(v), then set
\* _target_temp to v, then written the state once.
C3_SetTemperatureEveryValue ==
  (call.op = "set_temperature" /\ call.hvac_mode = None
     /\ call.temperature \in Temps /\ call.status = "returned")
    => log = << <<"controller.set_temperature", call.temperature>>,
                <<"_target_temp", call.temperature>>, WriteState >>

\* C4: every step that takes _connected from True to False schedules exactly
\* one reconnect timer, and no step schedules one while _connected stays False.
C4_OneTimerPerDisconnect ==
  [][/\ (_connected = PyTrue /\ _connected' = PyFalse)
          => Len(timers') = Len(timers) + 1
     /\ (_connected = PyFalse /\ _connected' = PyFalse)
          => Len(timers') <= Len(timers)]_vars

\* C5: in every reachable state, when _power is false the hvac_mode property
\* reads off, whatever _hvac_mode holds.
C5_PowerOffReadsOff == ~Truthy(_power) => hvac_mode = HVAC_MODE_OFF

\* C5 witness: an added entity with _power False and _hvac_mode heat
C5_Witness ==
  pc = "added" /\ _power = PyFalse /\ _hvac_mode = HVAC_MODE_HEAT
    /\ src["power"] # NotRead

\* C6: in every reachable state the fields that an async_update read from the
\* controller were all read from one and the same controller state: no state
\* shows some fields from a newer read beside fields from an older read.
C6_RefreshAllOrNothing ==
  Cardinality(UNION {src[f] : f \in Fields}) <= 1

\* C6 witness: the controller's dictionary changed, a second async_update
\* has overwritten the fields of the first, and a set_temperature call has
\* then written its target locally
C6_Witness ==
  /\ pc = "added"
  /\ gen = 2
  /\ src["hvac_mode"] = {2}
  /\ src["current_temp"] = {2}
  /\ src["target_temp"] = NotRead
  /\ call.status = "returned"

\* C7: in every reachable state the entity is available iff _connected is
\* None or True, and unavailable exactly when _connected is False.
C7_AvailableUnlessDisconnected ==
  /\ _connected \in {None, PyTrue, PyFalse}
  /\ Truthy(available) <=> _connected \in {None, PyTrue}
  /\ ~Truthy(available) <=> _connected = PyFalse

\* C7 witness: an added entity whose connection was lost
C7_Witness ==
  pc = "added" /\ _connected = PyFalse /\ ~Truthy(available) /\ drops > 0

\* C8 as stated: async_added_to_hass registers the callback before it
\* connects, and when connect() fails no exception leaves it and _connected
\* is still None (the entity available) when it returns.
C8_AttachFailureLeavesUnknown ==
  [][(pc = "connecting" /\ pc' # "connecting")
       => /\ attach_log' = <<"add_update_callback", "connect">>
          /\ attach_result'.connect # "ok"
               => /\ attach_result'.raised = "none"
                  /\ _connected' = None
                  /\ Truthy(available')]_vars

\* C8 amended: async_added_to_hass registers the callback before it
\* connects; when connect() raises IHConnectionError no exception leaves it;
\* and it does not write _connected, which is no longer None when it returns:
\* the update before add has stored the controller's flag there already.
C8_AttachFailureLeavesConnectivity ==
  [][(pc = "connecting" /\ pc' # "connecting")
       => /\ attach_log' = <<"add_update_callback", "connect">>
          /\ attach_result'.connect = "IHConnectionError"
               => (attach_result'.raised = "none" /\ pc' = "added")
          /\ _connected' = _connected
          /\ _connected' \in {PyTrue, PyFalse}]_vars

\* C8 witness: async_added_to_hass returned after a caught IHConnectionError
\* and the entity, never connected, is unavailable
C8_Witness ==
  /\ pc = "added"
  /\ attach_result = [connect |-> "IHConnectionError", raised |-> "none"]
  /\ _connected = PyFalse
  /\ ~Truthy(available)
  /\ drops = 0

\* C9 as stated: on every setup path an authentication failure ends the
\* setup with an authentication error and not with "not ready", and a
\* connection failure is reported as "not ready".
C9_FailureKindDecidesOnEveryPath ==
  /\ platform_result.poll_status = "IHAuthenticationError"
       => platform_result.effect = "invalid_euid_logged_return"
  /\ platform_result.poll_status = "IHConnectionError"
       => platform_result.effect = "PlatformNotReady"
  /\ \A e \in EntryIds :
       /\ entry_setup[e].connect = "IT600AuthenticationError"
            => entry_setup[e].effect = "IT600AuthenticationError"
       /\ entry_setup[e].connect = "IT600ConnectionError"
            => entry_setup[e].effect = "ConfigEntryNotReady"
  /\ flow.connect = "IT600AuthenticationError"
       => flow.result.reason = "authentication_error"
  /\ flow.connect = "IT600ConnectionError"
       => flow.result.reason = "not_ready"

\* C9 amended: platform setup logs an authentication failure and returns
\* (no retry) and raises PlatformNotReady on a connection failure; config
\* entry setup raises ConfigEntryNotReady on both; the config flow never
\* reports "not ready" but shows the form again (user step) or aborts
\* (zeroconf) with an error keyed to the failure kind.
C9_FailureKindPerPath ==
  /\ platform_result.poll_status = "IHAuthenticationError"
       => platform_result.effect = "invalid_euid_logged_return"
  /\ platform_result.poll_status = "IHConnectionError"
       => platform_result.effect = "PlatformNotReady"
  /\ \A e \in EntryIds :
       entry_setup[e].connect
           \in {"IT600AuthenticationError", "IT600ConnectionError"}
         => entry_setup[e].effect = "ConfigEntryNotReady"
  /\ flow.connect = "IT600AuthenticationError"
       => /\ flow.result.reason = "authentication_error"
          /\ flow.result.type \in {"form", "abort"}
  /\ flow.connect = "IT600ConnectionError"
       => /\ flow.result.reason = "connection_error"
          /\ flow.result.type \in {"form", "abort"}

\* C9 witness: an authentication failure on each of the three paths
C9_Witness ==
  /\ platform_result.poll_status = "IHAuthenticationError"
  /\ entry_setup["e1"] = [connect |-> "IT600AuthenticationError",
                          effect |-> "ConfigEntryNotReady"]
  /\ entry_setup["e2"].connect = "IT600ConnectionError"
  /\ flow.connect = "IT600AuthenticationError"
  /\ flow.result.type = "abort"

\* C10: every reconnect timer scheduled has a delay of a whole number of
\* minutes from 1 to 11, that is within 60..660 seconds.
C10_ReconnectDelayRange ==
  \A i \in 1..Len(timers) :
    /\ timers[i] >= 60
    /\ timers[i] <= 660
    /\ \E m \in 1..11 : timers[i] = m * 60

\* C10 witness: a timer scheduled with the largest value of randrange(10)
C10_Witness ==
  \E i \in 1..Len(timers) : timers[i] = ReconnectDelay(RandrangeStop - 1)

\* C11: whenever the controller of an added entity is disconnected and
\* delivers an update callback, a reconnect is scheduled or has been issued
\* after the callback (a callback that schedules none leaves _connected and
\* is_connected as they were, so no later callback schedules one either):
\* a timer is pending, or a timer has called connect() since the connection
\* was lost; also when the entity was never connected and when async_update
\* saw the lost connection first.
C11_DisconnectLeadsToReconnect ==
  [][\A device_id \in CallbackIds, r \in 0..(RandrangeStop - 1) :
       (pc = "added" /\ UpdateCallback(device_id, r) /\ ~Truthy(is_connected))
         => (timers' # <<>> \/ reconnect_issued)]_vars

\* C12: an update callback (a step that leaves call, pc and is_connected
\* alone, as every callback does) requests a refresh iff its device id is
\* absent or the entity's own; whatever the id, it marks a lost connection
\* and schedules one reconnect, or marks a restored connection.
C12_RefreshIffOwnOrAbsent ==
  [][(call' = call /\ pc' = pc /\ is_connected' = is_connected)
       => \A device_id \in CallbackIds, r \in 0..(RandrangeStop - 1) :
            UpdateCallback(device_id, r)
              => /\ pending_refresh' = pending_refresh + 1
                      <=> device_id \in {None, OwnDeviceId}
                 /\ pending_refresh' = pending_refresh
                      <=> device_id \notin {None, OwnDeviceId}
                 /\ (is_connected = PyFalse /\ _connected = PyTrue)
                      => (_connected' = PyFalse
                          /\ Len(timers') = Len(timers) + 1)
                 /\ (is_connected = PyTrue /\ _connected # PyTrue)
                      => (_connected' = PyTrue /\ timers' = timers)]_vars

\* C12 witness: a callback for another device has marked the lost connection
\* and scheduled the reconnect, and no refresh was requested or has run
C12_Witness ==
  /\ ~stopped
  /\ timers # <<>>
  /\ _connected = PyFalse
  /\ src["connected"] = NotRead
  /\ pending_refresh = 0

C14_TimerAlwaysFires ==
  /\ [][timers' # timers /\ Len(timers') <= Len(timers)
          => /\ Len(timers') = Len(timers) - 1
             /\ connect_calls' = connect_calls + 1]_vars
  /\ (timers # <<>>) ~> (timers = <<>>)

\* C14 witness: a timer has fired and called connect() although the
\* connection was back and the entity knew it
C14_Witness ==
  /\ timers = <<>>
  /\ reconnect_issued
  /\ connect_calls = 2
  /\ _connected = PyTrue
  /\ is_connected = PyTrue
  /\ drops = 1

\* C18: once the entity is removed, connect() is not called any more.
C18_NoConnectAfterRemoval ==
  [][pc = "removed" => connect_calls' = connect_calls]_vars

\* C15: async_step_zeroconf aborts with not_gateway every name that does not
\* start with "Gateway_", and for every name that does, the flow's unique id
\* and the serial number put in the context are the name without that prefix.
C15_SerialIsRemainderOfName ==
  [][\A name \in ZeroconfNames, host \in Hosts, port \in Ports :
       StepZeroconf(name, host, port)
         => IF StartsWith(name, Str_Gateway_)
            THEN LET rest == SubSeq(name, Len(Str_Gateway_) + 1, Len(name)) IN
                 /\ flow'.unique_id = rest
                 /\ flow'.result.type = "form"
                      => flow'.context.serial_number = rest
            ELSE flow'.result = FlowAbort("not_gateway")]_vars

\* C16: hass.data holds the client of an entry exactly when the entry's last
\* setup connected or its last unload failed; an entry enters the map only
\* by a setup whose connect() returned, a failed setup changes nothing of
\* the map, an unload with every platform unloaded removes that entry and
\* reports success, and an unload with a failing platform leaves the map
\* unchanged and reports failure.
C16_DataMapFollowsSetup ==
  /\ [](\A e \in EntryIds :
          e \in hass_data <=> entry_setup[e].effect \in {"loaded", "unload_failed"})
  /\ [][\A e \in EntryIds :
          /\ (e \notin hass_data /\ e \in hass_data')
               => (entry_setup'[e] = [connect |-> "ok", effect |-> "loaded"]
                   /\ hass_data' = hass_data \cup {e})
          /\ (entry_setup'[e].effect = "ConfigEntryNotReady"
                /\ entry_setup'[e] # entry_setup[e])
               => hass_data' = hass_data
          /\ \A unload_ok \in BOOLEAN :
               UnloadEntry(e, unload_ok)
                 => /\ hass_data' = IF unload_ok THEN hass_data \ {e}
                                     ELSE hass_data
                    /\ entry_setup'[e].effect = "unloaded" <=> unload_ok]_vars

\* C16 witness: one entry whose unload failed is still in the map, after a
\* successful connect, and the other was unloaded and is out of it
C16_Witness ==
  /\ entry_setup["e1"] = [connect |-> "ok", effect |-> "unload_failed"]
  /\ entry_setup["e2"].effect = "unloaded"
  /\ hass_data = {"e1"}

C19_EntryDataComplete ==
  flow.result.type = "create_entry"
    => /\ flow.connect = "ok"
       /\ flow.result.data.host \in Hosts
       /\ flow.result.data.port \in Ports
       /\ flow.result.data.euid \in Euids
       /\ flow.result.data.serial_number = flow.unique_id

====
